---- MODULE Spec2Model ----
(***************************************************************************)
(* Model of src/server.py: the Wikipedia gateway (make_wikipedia_request), *)
(* the three response formatters and the six tool coroutines.              *)
(*                                                                         *)
(* Strings are sequences of one-character strings, so that str.replace,    *)
(* slicing and join are computed character by character.  Decoded JSON     *)
(* values are tagged records (none, bool, int, str, list, dict); a dict is *)
(* the sequence of its <<key, value>> items in insertion order.  The       *)
(* evaluation of a Python expression yields Ok(value) or Raise(exception). *)
(***************************************************************************)
EXTENDS Integers, Sequences, FiniteSets, TLC

VARIABLES calls, sessions

\* src/server.py:6-10 (the state of the server and its invocations)
vars == <<calls, sessions>>

(***************************************************************************)
(* Bounds of the model.                                                    *)
(***************************************************************************)
\* limits range over -MaxNegLimit .. MaxLimit
MaxNegLimit == 2
MaxLimit == 52
\* the longest sections list a sections payload carries
MaxSections == 12
\* the longest categories list a categories payload carries
MaxCats == 3
\* concurrent invocations of SpecConc
NumCalls == 2

(***************************************************************************)
(* Python values and outcomes.                                             *)
(***************************************************************************)
\* src/server.py:28-28 (None)
PyNone == [t |-> "none"]
\* src/server.py:26-26 (response.json: true/false)
PyBool(b) == [t |-> "bool", v |-> b]
\* src/server.py:26-26 (response.json: number)
PyInt(n) == [t |-> "int", v |-> n]
\* src/server.py:26-26 (response.json: string)
PyStr(s) == [t |-> "str", v |-> s]
\* src/server.py:26-26 (response.json: array)
PyList(xs) == [t |-> "list", v |-> xs]
\* src/server.py:26-26 (response.json: object)
PyDict(items) == [t |-> "dict", v |-> items]

\* src/server.py:89-89 (an expression or function that returns a value)
Ok(x) == [k |-> "ok", v |-> x]
\* src/server.py:189-189 (an expression that raises)
Raise(e) == [k |-> "exc", e |-> e]

\* src/server.py:81-81 (truth value of `not data`)
Truthy(x) ==
  CASE x.t = "none" -> FALSE
    [] x.t = "bool" -> x.v
    [] x.t = "int" -> x.v # 0
    [] OTHER -> Len(x.v) > 0

\* src/server.py:77-77 (min)
Min(a, b) == IF a < b THEN a ELSE b

\* src/server.py:230-230 (a negative slice end is clamped at 0)
Max(a, b) == IF a > b THEN a ELSE b

(***************************************************************************)
(* str methods, on sequences of characters.                                *)
(***************************************************************************)
\* src/server.py:33-33 (str.replace: a match at position i)
MatchAt(s, i, pat) ==
  /\ i + Len(pat) - 1 <= Len(s)
  /\ SubSeq(s, i, i + Len(pat) - 1) = pat

RECURSIVE ReplaceFrom(_, _, _, _)
\* src/server.py:33-33 (str.replace, scanning from position i)
ReplaceFrom(s, i, old, new) ==
  IF i > Len(s) THEN <<>>
  ELSE IF MatchAt(s, i, old)
    THEN new \o ReplaceFrom(s, i + Len(old), old, new)
    ELSE <<s[i]>> \o ReplaceFrom(s, i + 1, old, new)

\* src/server.py:33-33 (str.replace)
Replace(s, old, new) == ReplaceFrom(s, 1, old, new)

RECURSIVE Join(_, _)
\* src/server.py:58-58 (str.join)
Join(sep, parts) ==
  IF Len(parts) = 0 THEN <<>>
  ELSE IF Len(parts) = 1 THEN parts[1]
  ELSE parts[1] \o sep \o Join(sep, Tail(parts))

\* src/server.py:89-89 (a decimal digit of str(int))
Digit(d) == <<"0", "1", "2", "3", "4", "5", "6", "7", "8", "9">>[d + 1]

RECURSIVE NatToStr(_)
\* src/server.py:89-89 (str of a non-negative int)
NatToStr(n) ==
  IF n < 10 THEN <<Digit(n)>> ELSE NatToStr(n \div 10) \o <<Digit(n % 10)>>

\* src/server.py:89-89 (str of an int in an f-string)
IntToStr(n) == IF n < 0 THEN <<"-">> \o NatToStr(0 - n) ELSE NatToStr(n)

RECURSIVE Repr(_)
RECURSIVE ReprAll(_)
RECURSIVE ReprItems(_)
\* src/server.py:34-36 (repr of a value nested in a formatted list or dict)
Repr(x) ==
  CASE x.t = "none" -> <<"N","o","n","e">>  \* "None"
    [] x.t = "bool" -> IF x.v THEN <<"T","r","u","e">> ELSE <<"F","a","l","s","e">>  \* "True" "False"
    [] x.t = "int" -> IntToStr(x.v)
    [] x.t = "str" -> <<"'">> \o x.v \o <<"'">>
    [] x.t = "list" -> <<"[">> \o Join(<<","," ">>, ReprAll(x.v)) \o <<"]">>  \* ", "
    [] OTHER -> <<"{">> \o Join(<<","," ">>, ReprItems(x.v)) \o <<"}">>  \* ", "

\* src/server.py:34-36 (repr of the elements of a list)
ReprAll(xs) ==
  IF Len(xs) = 0 THEN <<>> ELSE <<Repr(xs[1])>> \o ReprAll(Tail(xs))

\* src/server.py:34-36 (repr of the items of a dict)
ReprItems(items) ==
  IF Len(items) = 0 THEN <<>>
  ELSE <<(<<"'">> \o items[1][1] \o <<"': ">>) \o Repr(items[1][2])>>
         \o ReprItems(Tail(items))

\* src/server.py:34-36 (format of a value interpolated in an f-string)
Str(x) == IF x.t = "str" THEN x.v ELSE Repr(x)

(***************************************************************************)
(* Operations on decoded values; each yields Ok(..) or Raise(..).          *)
(***************************************************************************)
\* src/server.py:81-81 (dict membership)
HasKey(items, key) == \E i \in 1..Len(items) : items[i][1] = key

\* src/server.py:84-84 (dict lookup)
Lookup(items, key) ==
  items[CHOOSE i \in 1..Len(items) : items[i][1] = key][2]

\* src/server.py:81-81 (`in` on a str)
IsSubstring(pat, s) == \E i \in 1..(Len(s) + 1) : MatchAt(s, i, pat)

\* src/server.py:81-81 (`key in container`)
In(key, x) ==
  CASE x.t = "dict" -> Ok(HasKey(x.v, key))
    [] x.t = "list" ->
         Ok(\E i \in 1..Len(x.v) : x.v[i].t = "str" /\ x.v[i].v = key)
    [] x.t = "str" -> Ok(IsSubstring(key, x.v))
    [] OTHER -> Raise("TypeError")

\* src/server.py:84-84 (`container[key]`, key a str)
GetItem(x, key) ==
  CASE x.t = "dict" ->
         IF HasKey(x.v, key) THEN Ok(Lookup(x.v, key)) ELSE Raise("KeyError")
    [] OTHER -> Raise("TypeError")

\* src/server.py:32-32 (`obj.get(key, default)`)
Get(x, key, default) ==
  IF x.t # "dict" THEN Raise("AttributeError")
  ELSE IF HasKey(x.v, key) THEN Ok(Lookup(x.v, key)) ELSE Ok(default)

\* src/server.py:36-36 (`obj.replace(old, new)`)
MethodReplace(x, old, new) ==
  IF x.t # "str" THEN Raise("AttributeError")
  ELSE Ok(PyStr(Replace(x.v, old, new)))

\* src/server.py:189-189 (dict.values, in insertion order)
ItemValues(items) == [i \in 1..Len(items) |-> items[i][2]]

\* src/server.py:189-189 (`pages.values()`)
Values(x) ==
  IF x.t # "dict" THEN Raise("AttributeError") ELSE Ok(ItemValues(x.v))

\* src/server.py:194-194 (the elements a for loop or comprehension visits)
Iterate(x) ==
  CASE x.t = "list" -> Ok(x.v)
    [] x.t = "dict" -> Ok([i \in 1..Len(x.v) |-> PyStr(x.v[i][1])])
    [] x.t = "str" -> Ok([i \in 1..Len(x.v) |-> PyStr(<<x.v[i]>>)])
    [] OTHER -> Raise("TypeError")

\* src/server.py:230-230 (the end of the slice xs[:stop] of a sequence)
SliceEnd(n, stop) == IF stop < 0 THEN Max(n + stop, 0) ELSE Min(stop, n)

\* src/server.py:54-54 (`x[:stop]`)
Slice(x, stop) ==
  CASE x.t = "list" -> Ok(PyList(SubSeq(x.v, 1, SliceEnd(Len(x.v), stop))))
    [] x.t = "str" -> Ok(PyStr(SubSeq(x.v, 1, SliceEnd(Len(x.v), stop))))
    [] OTHER -> Raise("TypeError")

(***************************************************************************)
(* Module constants and the literal texts of the source.                   *)
(***************************************************************************)
\* src/server.py:12-12 (WIKIPEDIA_API_BASE)
WIKIPEDIA_API_BASE == <<"h","t","t","p","s",":","/","/","e","n",".","w","i","k","i","p","e","d","i","a",".","o","r","g","/","a","p","i","/","r","e","s","t","_","v","1">>  \* "https://en.wikipedia.org/api/rest_v1"
\* src/server.py:13-13 (WIKIPEDIA_SEARCH_API)
WIKIPEDIA_SEARCH_API == <<"h","t","t","p","s",":","/","/","e","n",".","w","i","k","i","p","e","d","i","a",".","o","r","g","/","w","/","a","p","i",".","p","h","p">>  \* "https://en.wikipedia.org/w/api.php"
\* src/server.py:14-14 (USER_AGENT)
USER_AGENT == <<"w","i","k","i","p","e","d","i","a","-","m","c","p","/","1",".","0">>  \* "wikipedia-mcp/1.0"

\* src/server.py:77-77 (the cap of srlimit)
SearchCap == 20
\* src/server.py:181-181 (the cap of pllimit)
LinksCap == 50
\* src/server.py:216-216 (cllimit)
CategoriesLimit == 20
\* src/server.py:54-54 (the number of sections listed)
SectionsCap == 10

\* src/server.py:81-81 (the key 'query')
K_query == <<"q","u","e","r","y">>  \* "query"
\* src/server.py:81-81 (the key 'search')
K_search == <<"s","e","a","r","c","h">>  \* "search"
\* src/server.py:32-32 (the key 'title')
K_title == <<"t","i","t","l","e">>  \* "title"
\* src/server.py:33-33 (the key 'snippet')
K_snippet == <<"s","n","i","p","p","e","t">>  \* "snippet"
\* src/server.py:41-41 (the key 'extract')
K_extract == <<"e","x","t","r","a","c","t">>  \* "extract"
\* src/server.py:42-42 (the key 'content_urls')
K_content_urls == <<"c","o","n","t","e","n","t","_","u","r","l","s">>  \* "content_urls"
\* src/server.py:42-42 (the key 'desktop')
K_desktop == <<"d","e","s","k","t","o","p">>  \* "desktop"
\* src/server.py:42-42 (the key 'page')
K_page == <<"p","a","g","e">>  \* "page"
\* src/server.py:55-55 (the key 'line')
K_line == <<"l","i","n","e">>  \* "line"
\* src/server.py:116-116 (the key 'sections')
K_sections == <<"s","e","c","t","i","o","n","s">>  \* "sections"
\* src/server.py:185-185 (the key 'pages')
K_pages == <<"p","a","g","e","s">>  \* "pages"
\* src/server.py:191-191 (the key 'links')
K_links == <<"l","i","n","k","s">>  \* "links"
\* src/server.py:226-226 (the key 'categories')
K_categories == <<"c","a","t","e","g","o","r","i","e","s">>  \* "categories"

\* src/server.py:33-33 (the opening highlight markup)
SpanOpen == <<"<","s","p","a","n"," ","c","l","a","s","s","=","\"","s","e","a","r","c","h","m","a","t","c","h","\"",">">>  \* "<span class="searchmatch">"
\* src/server.py:33-33 (the closing highlight markup)
SpanClose == <<"<","/","s","p","a","n",">">>  \* "</span>"
\* src/server.py:229-229 (the category prefix)
CategoryPrefix == <<"C","a","t","e","g","o","r","y",":">>  \* "Category:"

(***************************************************************************)
(* Response formatters.  A function that returns str yields Ok(chars).     *)
(***************************************************************************)
\* src/server.py:30-36 (format_search_result)
format_search_result(page) ==
  LET title == Get(page, K_title, PyStr(<<"U","n","k","n","o","w","n">>))  \* "Unknown"
      raw == Get(page, K_snippet, PyStr(<<"N","o"," ","d","e","s","c","r","i","p","t","i","o","n"," ","a","v","a","i","l","a","b","l","e">>))  \* "No description available"
      s1 == MethodReplace(raw.v, SpanOpen, <<>>)
      snippet == MethodReplace(s1.v, SpanClose, <<>>)
      path == MethodReplace(title.v, <<" ">>, <<"_">>)  \* " " "_"
  IN  IF title.k = "exc" THEN title
      ELSE IF s1.k = "exc" THEN s1
      ELSE IF path.k = "exc" THEN path
      ELSE Ok(<<"T","i","t","l","e",":"," ">> \o Str(title.v)  \* "Title: "
              \o <<"\n","D","e","s","c","r","i","p","t","i","o","n",":"," ">> \o Str(snippet.v)  \* "\nDescription: "
              \o <<"\n","U","R","L",":"," ","h","t","t","p","s",":","/","/","e","n",".","w","i","k","i","p","e","d","i","a",".","o","r","g","/","w","i","k","i","/">> \o Str(path.v))  \* "\nURL: https://en.wikipedia.org/wiki/"

\* src/server.py:38-46 (format_article_summary)
format_article_summary(data) ==
  LET title == Get(data, K_title, PyStr(<<"U","n","k","n","o","w","n">>))  \* "Unknown"
      extract == Get(data, K_extract, PyStr(<<"N","o"," ","s","u","m","m","a","r","y"," ","a","v","a","i","l","a","b","l","e">>))  \* "No summary available"
      urls == Get(data, K_content_urls, PyDict(<<>>))
      desktop == Get(urls.v, K_desktop, PyDict(<<>>))
      content_urls == Get(desktop.v, K_page, PyStr(<<>>))
  IN  IF title.k = "exc" THEN title
      ELSE IF desktop.k = "exc" THEN desktop
      ELSE IF content_urls.k = "exc" THEN content_urls
      ELSE Ok(<<"T","i","t","l","e",":"," ">> \o Str(title.v)  \* "Title: "
              \o <<"\n","S","u","m","m","a","r","y",":"," ">> \o Str(extract.v)  \* "\nSummary: "
              \o <<"\n","U","R","L",":"," ">> \o Str(content_urls.v))  \* "\nURL: "

RECURSIVE SectionLines(_)
\* src/server.py:53-56 (the loop of format_article_sections)
SectionLines(secs) ==
  IF Len(secs) = 0 THEN Ok(<<>>)
  ELSE LET line == Get(secs[1], K_line, PyStr(<<"U","n","k","n","o","w","n"," ","S","e","c","t","i","o","n">>))  \* "Unknown Section"
           rest == SectionLines(Tail(secs))
       IN  IF line.k = "exc" THEN line
           ELSE IF rest.k = "exc" THEN rest
           ELSE Ok(<<<<"-"," ">> \o Str(line.v)>> \o rest.v)  \* "- "

\* format_article_sections without the slice to the first 10 sections
format_article_sections_uncapped(sections) ==
  IF ~Truthy(sections) THEN Ok(<<"N","o"," ","s","e","c","t","i","o","n","s"," ","f","o","u","n","d",".">>)  \* "No sections found."
  ELSE LET elems == Iterate(sections)
           formatted_sections == SectionLines(elems.v)
       IN  IF elems.k = "exc" THEN elems
           ELSE IF formatted_sections.k = "exc" THEN formatted_sections
           ELSE Ok(Join(<<"\n">>, formatted_sections.v))  \* "\n"

\* src/server.py:48-58 (format_article_sections)
format_article_sections(sections) ==
  IF ~Truthy(sections) THEN Ok(<<"N","o"," ","s","e","c","t","i","o","n","s"," ","f","o","u","n","d",".">>)  \* "No sections found."
  ELSE LET first == Slice(sections, SectionsCap)
           elems == Iterate(first.v)
           formatted_sections == SectionLines(elems.v)
       IN  IF first.k = "exc" THEN first
           ELSE IF formatted_sections.k = "exc" THEN formatted_sections
           ELSE Ok(Join(<<"\n">>, formatted_sections.v))  \* "\n"

(***************************************************************************)
(* Gateway client.  A response of the network is a record: kind "timeout"  *)
(* or "connect" (client.get raises), or kind "http" with a status and a    *)
(* body that decodes to json, or does not decode.                          *)
(***************************************************************************)
\* src/server.py:18-24 (the GET make_wikipedia_request issues)
Request(url, params) ==
  [method |-> "GET", url |-> url, params |-> params,
   headers |-> [UserAgent |-> USER_AGENT, Accept |-> <<"a","p","p","l","i","c","a","t","i","o","n","/","j","s","o","n">>],  \* "application/json"
   timeout |-> 30]

\* src/server.py:16-16 (the default of params)
NoParams == PyNone

\* src/server.py:24-26 (the exception the try block raises, "" when none)
Raised(resp) ==
  IF resp.kind = "timeout" THEN "TimeoutException"
  ELSE IF resp.kind = "connect" THEN "ConnectError"
  ELSE IF resp.status >= 400 THEN "HTTPStatusError"
  ELSE IF ~resp.decodable THEN "JSONDecodeError"
  ELSE ""

\* make_wikipedia_request without response.raise_for_status(): the body of
\* an error response is decoded and returned
make_wikipedia_request_unchecked(resp) ==
  IF resp.kind \in {"timeout", "connect"} THEN PyNone
  ELSE IF ~resp.decodable THEN PyNone
  ELSE resp.json

\* src/server.py:16-28 (make_wikipedia_request: the value returned)
make_wikipedia_request(resp) ==
  IF Raised(resp) # "" THEN PyNone ELSE resp.json

(***************************************************************************)
(* Tool operations: the request each builds, and its body after the await. *)
(***************************************************************************)
\* search_wikipedia with the limit clamped to 1..20 instead of capped
search_wikipedia_request_clamped(query, limit) ==
  Request(WIKIPEDIA_SEARCH_API,
          [action |-> <<"q","u","e","r","y">>, format |-> <<"j","s","o","n">>, list |-> <<"s","e","a","r","c","h">>,  \* "query" "json" "search"
           srsearch |-> query, srlimit |-> Max(1, Min(limit, SearchCap))])

\* src/server.py:72-80 (search_wikipedia: the request)
search_wikipedia_request(query, limit) ==
  Request(WIKIPEDIA_SEARCH_API,
          [action |-> <<"q","u","e","r","y">>, format |-> <<"j","s","o","n">>, list |-> <<"s","e","a","r","c","h">>,  \* "query" "json" "search"
           srsearch |-> query, srlimit |-> Min(limit, SearchCap)])

RECURSIVE FormatAll(_)
\* src/server.py:88-88 (the comprehension over search_results)
FormatAll(hits) ==
  IF Len(hits) = 0 THEN Ok(<<>>)
  ELSE LET one == format_search_result(hits[1])
           rest == FormatAll(Tail(hits))
       IN  IF one.k = "exc" THEN one
           ELSE IF rest.k = "exc" THEN rest
           ELSE Ok(<<one.v>> \o rest.v)

\* src/server.py:81-89 (search_wikipedia: after the request)
search_wikipedia(query, limit, data) ==
  LET hasQuery == In(K_query, data)
      q == GetItem(data, K_query)
      hasSearch == In(K_search, q.v)
      search_results == GetItem(q.v, K_search)
      hits == Iterate(search_results.v)
      results == FormatAll(hits.v)
      unable == Ok(<<"U","n","a","b","l","e"," ","t","o"," ","s","e","a","r","c","h"," ","W","i","k","i","p","e","d","i","a"," ","o","r"," ","n","o"," ","r","e","s","u","l","t","s"," ","f","o","u","n","d",".">>)  \* "Unable to search Wikipedia or no results found."
  IN  IF ~Truthy(data) THEN unable
      ELSE IF hasQuery.k = "exc" THEN hasQuery
      ELSE IF ~hasQuery.v THEN unable
      ELSE IF q.k = "exc" THEN q
      ELSE IF hasSearch.k = "exc" THEN hasSearch
      ELSE IF ~hasSearch.v THEN unable
      ELSE IF search_results.k = "exc" THEN search_results
      ELSE IF ~Truthy(search_results.v)
        THEN Ok(<<"N","o"," ","W","i","k","i","p","e","d","i","a"," ","a","r","t","i","c","l","e","s"," ","f","o","u","n","d"," ","f","o","r"," ","q","u","e","r","y",":"," ","'">> \o query \o <<"'">>)  \* "No Wikipedia articles found for query: '" "'"
      ELSE IF hits.k = "exc" THEN hits
      ELSE IF results.k = "exc" THEN results
      ELSE Ok(<<"F","o","u","n","d"," ">> \o IntToStr(Len(results.v))  \* "Found "
              \o <<" ","W","i","k","i","p","e","d","i","a"," ","a","r","t","i","c","l","e","s",":","\n","\n">> \o Join(<<"\n","-","-","-","\n">>, results.v))  \* " Wikipedia articles:\n\n" "\n---\n"

\* src/server.py:103-104 (get_wikipedia_article: the summary request)
summary_request(title) ==
  Request(WIKIPEDIA_API_BASE \o <<"/","p","a","g","e","/","s","u","m","m","a","r","y","/">> \o Replace(title, <<" ">>, <<"_">>),  \* "/page/summary/" " " "_"
          NoParams)

\* src/server.py:110-111 (get_wikipedia_article: the sections request)
sections_request(title) ==
  Request(WIKIPEDIA_API_BASE \o <<"/","p","a","g","e","/","s","e","c","t","i","o","n","s","/">> \o Replace(title, <<" ">>, <<"_">>),  \* "/page/sections/" " " "_"
          NoParams)

\* src/server.py:106-106 (get_wikipedia_article: `if not summary_data`)
article_returns_early(summary_data) == ~Truthy(summary_data)

\* src/server.py:107-107 (get_wikipedia_article: the early return)
article_fallback(title) ==
  Ok(<<"U","n","a","b","l","e"," ","t","o"," ","f","e","t","c","h"," ","W","i","k","i","p","e","d","i","a"," ","a","r","t","i","c","l","e"," ","'">> \o title  \* "Unable to fetch Wikipedia article '"
     \o <<"'","."," ","A","r","t","i","c","l","e"," ","m","a","y"," ","n","o","t"," ","e","x","i","s","t",".">>)  \* "'. Article may not exist."

\* src/server.py:113-120 (get_wikipedia_article: after the sections request)
get_wikipedia_article(title, summary_data, sections_data) ==
  LET article_info == format_article_summary(summary_data)
      secs == Get(sections_data, K_sections, PyNone)
      sections_list == format_article_sections(GetItem(sections_data, K_sections).v)
  IN  IF article_info.k = "exc" THEN article_info
      ELSE IF ~Truthy(sections_data) THEN article_info
      ELSE IF secs.k = "exc" THEN secs
      ELSE IF ~Truthy(secs.v) THEN article_info
      ELSE IF sections_list.k = "exc" THEN sections_list
      ELSE Ok(article_info.v \o <<"\n","\n","S","e","c","t","i","o","n","s",":","\n">> \o sections_list.v)  \* "\n\nSections:\n"

\* src/server.py:133-134 (get_wikipedia_summary: the request)
get_wikipedia_summary_request(title) == summary_request(title)

\* src/server.py:136-139 (get_wikipedia_summary: after the request)
get_wikipedia_summary(title, data) ==
  IF ~Truthy(data)
    THEN Ok(<<"U","n","a","b","l","e"," ","t","o"," ","f","e","t","c","h"," ","s","u","m","m","a","r","y"," ","f","o","r"," ","W","i","k","i","p","e","d","i","a"," ","a","r","t","i","c","l","e"," ","'">> \o title \o <<"'",".">>)  \* "Unable to fetch summary for Wikipedia article '" "'."
    ELSE format_article_summary(data)

\* src/server.py:152-153 (get_wikipedia_sections: the request)
get_wikipedia_sections_request(title) == sections_request(title)

\* src/server.py:155-161 (get_wikipedia_sections: after the request)
get_wikipedia_sections(title, data) ==
  LET has == In(K_sections, data)
      sections == GetItem(data, K_sections)
      formatted_sections == format_article_sections(sections.v)
      unable == Ok(<<"U","n","a","b","l","e"," ","t","o"," ","f","e","t","c","h"," ","s","e","c","t","i","o","n","s"," ","f","o","r"," ","W","i","k","i","p","e","d","i","a"," ","a","r","t","i","c","l","e"," ","'">>  \* "Unable to fetch sections for Wikipedia article '"
                   \o title \o <<"'",".">>)  \* "'."
  IN  IF ~Truthy(data) THEN unable
      ELSE IF has.k = "exc" THEN has
      ELSE IF ~has.v THEN unable
      ELSE IF sections.k = "exc" THEN sections
      ELSE IF formatted_sections.k = "exc" THEN formatted_sections
      ELSE Ok(<<"S","e","c","t","i","o","n","s"," ","f","o","r"," ","'">> \o title \o <<"'",":","\n">> \o formatted_sections.v)  \* "Sections for '" "':\n"

\* src/server.py:185-189 (the page of a links or categories payload)
FirstPage(data) ==
  LET hasQuery == In(K_query, data)
      q == GetItem(data, K_query)
      hasPages == In(K_pages, q.v)
      pages == GetItem(q.v, K_pages)
      vals == Values(pages.v)
      unable == Ok([found |-> FALSE])
  IN  IF ~Truthy(data) THEN unable
      ELSE IF hasQuery.k = "exc" THEN hasQuery
      ELSE IF ~hasQuery.v THEN unable
      ELSE IF q.k = "exc" THEN q
      ELSE IF hasPages.k = "exc" THEN hasPages
      ELSE IF ~hasPages.v THEN unable
      ELSE IF pages.k = "exc" THEN pages
      ELSE IF vals.k = "exc" THEN vals
      \* next() of an exhausted iterator: StopIteration, which leaves a
      \* coroutine as RuntimeError
      ELSE IF Len(vals.v) = 0 THEN Raise("RuntimeError")
      ELSE Ok([found |-> TRUE, page |-> vals.v[1]])

RECURSIVE Titles(_)
\* src/server.py:194-194 (the comprehension link['title'] over the entries)
Titles(entries) ==
  IF Len(entries) = 0 THEN Ok(<<>>)
  ELSE LET one == GetItem(entries[1], K_title)
           rest == Titles(Tail(entries))
       IN  IF one.k = "exc" THEN one
           ELSE IF rest.k = "exc" THEN rest
           ELSE Ok(<<one.v>> \o rest.v)

\* src/server.py:196-196 (the lines "- " + item)
Bullets(items) == [i \in 1..Len(items) |-> <<"-"," ">> \o Str(items[i])]  \* "- "

\* src/server.py:176-184 (get_wikipedia_links: the request)
get_wikipedia_links_request(title, limit) ==
  Request(WIKIPEDIA_SEARCH_API,
          [action |-> <<"q","u","e","r","y">>, format |-> <<"j","s","o","n">>, titles |-> title,  \* "query" "json"
           prop |-> <<"l","i","n","k","s">>, pllimit |-> Min(limit, LinksCap)])  \* "links"

\* src/server.py:185-196 (get_wikipedia_links: after the request)
get_wikipedia_links(title, limit, data) ==
  LET first == FirstPage(data)
      page == first.v.page
      has == In(K_links, page)
      entries == GetItem(page, K_links)
      elems == Iterate(entries.v)
      links == Titles(elems.v)
  IN  IF first.k = "exc" THEN first
      ELSE IF ~first.v.found
        THEN Ok(<<"U","n","a","b","l","e"," ","t","o"," ","f","e","t","c","h"," ","l","i","n","k","s"," ","f","o","r"," ","W","i","k","i","p","e","d","i","a"," ","a","r","t","i","c","l","e"," ","'">> \o title \o <<"'",".">>)  \* "Unable to fetch links for Wikipedia article '" "'."
      ELSE IF has.k = "exc" THEN has
      ELSE IF ~has.v
        THEN Ok(<<"N","o"," ","l","i","n","k","s"," ","f","o","u","n","d"," ","i","n"," ","W","i","k","i","p","e","d","i","a"," ","a","r","t","i","c","l","e"," ","'">> \o title \o <<"'",".">>)  \* "No links found in Wikipedia article '" "'."
      ELSE IF entries.k = "exc" THEN entries
      ELSE IF elems.k = "exc" THEN elems
      ELSE IF links.k = "exc" THEN links
      ELSE Ok(<<"L","i","n","k","s"," ","i","n"," ","'">> \o title \o <<"'"," ","(","s","h","o","w","i","n","g"," ">>  \* "Links in '" "' (showing "
              \o IntToStr(Len(links.v)) \o <<" ","l","i","n","k","s",")",":","\n">>  \* " links):\n"
              \o Join(<<"\n">>, Bullets(links.v)))  \* "\n"

RECURSIVE StripCategory(_)
\* src/server.py:229-229 (the comprehension over page['categories'])
StripCategory(entries) ==
  IF Len(entries) = 0 THEN Ok(<<>>)
  ELSE LET t == GetItem(entries[1], K_title)
           one == MethodReplace(t.v, CategoryPrefix, <<>>)
           rest == StripCategory(Tail(entries))
       IN  IF t.k = "exc" THEN t
           ELSE IF one.k = "exc" THEN one
           ELSE IF rest.k = "exc" THEN rest
           ELSE Ok(<<one.v>> \o rest.v)

\* src/server.py:211-219 (get_related_topics: the request)
get_related_topics_request(title, limit) ==
  Request(WIKIPEDIA_SEARCH_API,
          [action |-> <<"q","u","e","r","y">>, format |-> <<"j","s","o","n">>, titles |-> title,  \* "query" "json"
           prop |-> <<"c","a","t","e","g","o","r","i","e","s">>, cllimit |-> CategoriesLimit])  \* "categories"

\* src/server.py:230-230 (the topics listed: categories[:limit])
RelatedSlice(categories, limit) ==
  SubSeq(categories, 1, SliceEnd(Len(categories), limit))

\* src/server.py:220-232 (get_related_topics: after the request)
get_related_topics(title, limit, data) ==
  LET first == FirstPage(data)
      page == first.v.page
      has == In(K_categories, page)
      entries == GetItem(page, K_categories)
      elems == Iterate(entries.v)
      categories == StripCategory(elems.v)
      related_topics == RelatedSlice(categories.v, limit)
  IN  IF first.k = "exc" THEN first
      ELSE IF ~first.v.found
        THEN Ok(<<"U","n","a","b","l","e"," ","t","o"," ","f","e","t","c","h"," ","r","e","l","a","t","e","d"," ","t","o","p","i","c","s"," ","f","o","r"," ","W","i","k","i","p","e","d","i","a"," ","a","r","t","i","c","l","e"," ","'">>  \* "Unable to fetch related topics for Wikipedia article '"
                \o title \o <<"'",".">>)  \* "'."
      ELSE IF has.k = "exc" THEN has
      ELSE IF ~has.v
        THEN Ok(<<"N","o"," ","c","a","t","e","g","o","r","i","e","s"," ","f","o","u","n","d"," ","f","o","r"," ","W","i","k","i","p","e","d","i","a"," ","a","r","t","i","c","l","e"," ","'">> \o title \o <<"'",".">>)  \* "No categories found for Wikipedia article '" "'."
      ELSE IF entries.k = "exc" THEN entries
      ELSE IF elems.k = "exc" THEN elems
      ELSE IF categories.k = "exc" THEN categories
      ELSE Ok(<<"T","o","p","i","c","s"," ","r","e","l","a","t","e","d"," ","t","o"," ","'">> \o title \o <<"'",":","\n">>  \* "Topics related to '" "':\n"
              \o Join(<<"\n">>, Bullets(related_topics)))  \* "\n"

(***************************************************************************)
(* Inputs: the arguments of an invocation and the responses of the         *)
(* network.  Payloads are drawn by index from sequences, one per endpoint. *)
(***************************************************************************)
\* src/server.py:60-61 (the invocations mcp dispatches)
Calls == 1..NumCalls

\* src/server.py:60-199 (the six tools registered with mcp.tool)
Ops ==
  {"search_wikipedia", "get_wikipedia_article", "get_wikipedia_summary",
   "get_wikipedia_sections", "get_wikipedia_links", "get_related_topics"}

\* src/server.py:61-199 (the tools that take a limit)
HasLimit(op) ==
  op \in {"search_wikipedia", "get_wikipedia_links", "get_related_topics"}

\* src/server.py:61-199 (the default of limit)
DefaultLimit(op) ==
  CASE op = "search_wikipedia" -> 10
    [] op = "get_wikipedia_links" -> 20
    [] op = "get_related_topics" -> 10
    [] OTHER -> 0

\* src/server.py:61-61 (the query and title arguments)
TextArgs == {<<"C","a","t"," ","f","o","o","d">>, <<"G","o">>}  \* "Cat food" "Go"

\* src/server.py:61-61 (the limit argument)
LimitArgs == (0 - MaxNegLimit)..MaxLimit

\* src/server.py:26-26 (response.json: the names in the decoded bodies)
Letter(i) ==
  <<"A", "B", "C", "D", "E", "F", "G", "H", "I", "J", "K", "L", "M",
    "N", "O", "P", "Q", "R", "S", "T", "U", "V", "W", "X", "Y", "Z">>[i]

\* src/server.py:26-26 (response.json: an object with one member)
Obj1(key, val) == PyDict(<< <<key, val>> >>)

\* src/server.py:30-33 (a search hit)
Hit(title, snippet) ==
  PyDict(<< <<K_title, PyStr(title)>>, <<K_snippet, PyStr(snippet)>> >>)

\* src/server.py:30-33 (a search hit with highlight markup)
Hit1 == Hit(<<"C","a","t"," ","f","o","o","d">>, SpanOpen \o <<"C","a","t">> \o SpanClose \o <<" ","f","o","o","d">>)  \* "Cat food" "Cat" " food"

\* src/server.py:30-33 (a search hit)
Hit2 == Hit(<<"G","o">>, <<"A"," ","g","a","m","e">>)  \* "Go" "A game"

\* src/server.py:81-84 (a search payload)
SearchBody(hits) == Obj1(K_query, Obj1(K_search, hits))

\* src/server.py:80-80 (the decoded bodies of list=search)
SearchPayloads ==
  << PyDict(<<>>),
     Obj1(K_query, PyDict(<<>>)),
     SearchBody(PyList(<<>>)),
     SearchBody(PyList(<<Hit1>>)),
     SearchBody(PyList(<<Hit1, Hit2>>)),
     SearchBody(PyList(<<Hit2, Hit1, Hit2>>)),
     SearchBody(PyList(<<PyDict(<<>>)>>)),
     SearchBody(PyList(<<Obj1(K_snippet, PyInt(7))>>)),
     SearchBody(PyList(<<Hit1, Obj1(K_title, PyInt(7))>>)),
     SearchBody(PyList(<<PyStr(<<"G","o">>)>>)),  \* "Go"
     SearchBody(PyDict(<<>>)),
     SearchBody(PyInt(3)),
     PyList(<<PyStr(K_query)>>),
     PyList(<<PyInt(1)>>),
     PyInt(5),
     PyNone >>

\* src/server.py:40-42 (a summary payload)
Summary1 ==
  PyDict(<< <<K_title, PyStr(<<"C","a","t"," ","f","o","o","d">>)>>,  \* "Cat food"
            <<K_extract, PyStr(<<"F","o","o","d"," ","f","o","r"," ","c","a","t","s",".">>)>>,  \* "Food for cats."
            <<K_content_urls,
              Obj1(K_desktop,
                   Obj1(K_page, PyStr(<<"h","t","t","p","s",":","/","/","e","n",".","w","i","k","i","p","e","d","i","a",".","o","r","g","/","w","i","k","i","/","C","a","t","_","f","o","o","d">>)))>> >>)  \* "https://en.wikipedia.org/wiki/Cat_food"

\* src/server.py:104-104 (the decoded bodies of /page/summary)
SummaryPayloads ==
  << Summary1,
     Obj1(K_title, PyStr(<<"G","o">>)),  \* "Go"
     Obj1(K_extract, PyInt(7)),
     PyDict(<<>>),
     PyList(<<PyStr(<<"G","o">>)>>),  \* "Go"
     PyDict(<< <<K_title, PyStr(<<"G","o">>)>>, <<K_content_urls, PyNone>> >>),  \* "Go"
     PyNone >>

\* src/server.py:55-55 (a section)
Section(i, k) == IF i = k THEN PyDict(<<>>) ELSE Obj1(K_line, PyStr(<<Letter(i)>>))

\* src/server.py:48-48 (a sections list)
SectionList(n, k) == PyList([i \in 1..n |-> Section(i, k)])

\* src/server.py:153-158 (the sections payloads)
SectionShapes ==
  [j \in 1..(MaxSections * 2) |->
     Obj1(K_sections,
          SectionList((j + 1) \div 2, IF j % 2 = 1 THEN 0 ELSE (j \div 2 + 1) \div 2))]

\* src/server.py:111-111 (the decoded bodies of /page/sections)
SectionsPayloads ==
  << PyDict(<<>>),
     Obj1(K_sections, PyList(<<>>)),
     Obj1(K_sections, PyList(<<PyInt(5)>>)),
     Obj1(K_sections, PyStr(<<"a","b">>)),  \* "ab"
     Obj1(K_sections, PyInt(5)),
     Obj1(K_sections, PyNone),
     Obj1(K_sections, PyList(<<Obj1(K_line, PyInt(7)), Obj1(K_line, PyStr(<<"A"," ","b">>))>>)),  \* "A b"
     PyList(<<PyStr(K_sections)>>),
     PyNone >> \o SectionShapes

\* src/server.py:194-194 (a link or category entry)
Entry(title) == Obj1(K_title, PyStr(title))

\* src/server.py:185-188 (a payload with query.pages)
PagesBody(pages) == Obj1(K_query, Obj1(K_pages, pages))

\* src/server.py:188-189 (a payload with one page)
OnePage(page) == PagesBody(Obj1(<<"7","3","6">>, page))  \* "736"

\* src/server.py:184-184 (the decoded bodies of prop=links)
LinksPayloads ==
  << PyDict(<<>>),
     Obj1(K_query, PyDict(<<>>)),
     PagesBody(PyDict(<<>>)),
     OnePage(Obj1(K_title, PyStr(<<"G","o">>))),  \* "Go"
     OnePage(Obj1(K_links, PyList(<<>>))),
     OnePage(Obj1(K_links, PyList(<<Entry(<<"A"," ","b">>), Entry(<<"C">>)>>))),  \* "A b" "C"
     OnePage(Obj1(K_links, PyList(<<Entry(<<"C">>), Obj1(<<"n","s">>, PyInt(0))>>))),  \* "C" "ns"
     OnePage(Obj1(K_links, PyList(<<Obj1(K_title, PyInt(7))>>))),
     PagesBody(PyDict(<< <<<<"-","1">>, PyDict(<<>>)>>,  \* "-1"
                         <<<<"7","3","6">>, Obj1(K_links, PyList(<<Entry(<<"C">>)>>))>> >>)),  \* "736" "C"
     PagesBody(PyList(<<Obj1(K_links, PyList(<<>>))>>)),
     OnePage(PyList(<<PyStr(K_links)>>)),
     PyList(<<PyStr(K_query)>>),
     PyInt(5),
     PyNone >>

\* src/server.py:229-229 (a categories list)
CategoryList(n) == PyList([i \in 1..n |-> Entry(CategoryPrefix \o <<Letter(i)>>)])

\* src/server.py:226-229 (the categories payloads)
CategoryShapes ==
  [j \in 1..(MaxCats + 1) |-> OnePage(Obj1(K_categories, CategoryList(j - 1)))]

\* src/server.py:219-219 (the decoded bodies of prop=categories)
CategoriesPayloads ==
  << PyDict(<<>>),
     Obj1(K_query, PyDict(<<>>)),
     PagesBody(PyDict(<<>>)),
     OnePage(Obj1(K_title, PyStr(<<"G","o">>))),  \* "Go"
     OnePage(Obj1(K_categories, PyList(<<Entry(<<"C","a","t","e","g","o","r","y",":","A">>), Obj1(<<"n","s">>, PyInt(14))>>))),  \* "Category:A" "ns"
     OnePage(Obj1(K_categories, PyList(<<Obj1(K_title, PyInt(7))>>))),
     OnePage(Obj1(K_categories, PyList(<<Entry(<<"F","e","l","i","n","e","s">>)>>))),  \* "Felines"
     PagesBody(PyList(<<>>)),
     PyList(<<PyStr(K_query)>>),
     PyNone >> \o CategoryShapes

\* src/server.py:24-28 (the responses for which the try block raises)
Failures ==
  << [kind |-> "timeout"],
     [kind |-> "connect"],
     [kind |-> "http", status |-> 404, decodable |-> TRUE,
      json |-> PyDict(<< <<K_title, PyStr(<<"N","o","t"," ","f","o","u","n","d",".">>)>>,  \* "Not found."
                         <<<<"d","e","t","a","i","l">>, PyStr(<<"P","a","g","e"," ","o","r"," ","r","e","v","i","s","i","o","n"," ","n","o","t"," ","f","o","u","n","d",".">>)>> >>)],  \* "detail" "Page or revision not found."
     [kind |-> "http", status |-> 500, decodable |-> FALSE],
     [kind |-> "http", status |-> 200, decodable |-> FALSE] >>

\* src/server.py:24-26 (the responses that decode)
Successes(payloads) ==
  [i \in 1..Len(payloads) |->
     [kind |-> "http", status |-> 200, decodable |-> TRUE, json |-> payloads[i]]]

\* src/server.py:80-219 (the endpoint of the k-th request of a tool)
Endpoint(op, k) ==
  CASE op = "search_wikipedia" -> "search"
    [] op = "get_wikipedia_article" -> IF k = 1 THEN "summary" ELSE "sections"
    [] op = "get_wikipedia_summary" -> "summary"
    [] op = "get_wikipedia_sections" -> "sections"
    [] op = "get_wikipedia_links" -> "links"
    [] OTHER -> "categories"

\* src/server.py:24-26 (the outcomes of client.get)
Responses(endpoint) ==
  Failures \o Successes(CASE endpoint = "search" -> SearchPayloads
                          [] endpoint = "summary" -> SummaryPayloads
                          [] endpoint = "sections" -> SectionsPayloads
                          [] endpoint = "links" -> LinksPayloads
                          [] OTHER -> CategoriesPayloads)

(***************************************************************************)
(* The state machine.  calls[c] is the state of invocation slot c: the     *)
(* coroutine's position, its arguments, the requests it issued, the        *)
(* responses it got, the values make_wikipedia_request returned to it, the *)
(* AsyncClient it is inside, and what it returned or raised.  sessions is  *)
(* the set of open AsyncClient sessions.                                   *)
(***************************************************************************)
\* src/server.py:22-22 (outside the async with block)
NoClient == [owner |-> 0 - 1, req |-> 0]

\* src/server.py:60-61 (a tool that has not returned)
NoResult == [k |-> "none"]

\* src/server.py:234-236 (mcp.run: no tool running in the slot)
Idle ==
  [pc |-> "idle", op |-> "", arg |-> <<>>, limit |-> 0, reqs |-> <<>>,
   resps |-> <<>>, data |-> <<>>, client |-> NoClient, result |-> NoResult]

\* one module-level client shared by every request
SharedClient(c, k) == [owner |-> 0, req |-> 0]

\* src/server.py:22-22 (httpx.AsyncClient(): the session of request k of call c)
AsyncClient(c, k) == [owner |-> c, req |-> k]

\* src/server.py:80-219 (the first request of a tool)
FirstRequest(op, arg, limit) ==
  CASE op = "search_wikipedia" -> search_wikipedia_request(arg, limit)
    [] op = "get_wikipedia_article" -> summary_request(arg)
    [] op = "get_wikipedia_summary" -> get_wikipedia_summary_request(arg)
    [] op = "get_wikipedia_sections" -> get_wikipedia_sections_request(arg)
    [] op = "get_wikipedia_links" -> get_wikipedia_links_request(arg, limit)
    [] OTHER -> get_related_topics_request(arg, limit)

\* get_wikipedia_article issuing the sections request whatever the summary
\* request returned
NextRequestsAlways(op, arg, data) ==
  IF op = "get_wikipedia_article" /\ Len(data) = 1
    THEN <<sections_request(arg)>>
    ELSE <<>>

\* src/server.py:106-111 (the requests a tool issues after the values in data)
NextRequests(op, arg, data) ==
  IF op = "get_wikipedia_article" /\ Len(data) = 1 /\ ~article_returns_early(data[1])
    THEN <<sections_request(arg)>>
    ELSE <<>>

\* src/server.py:81-232 (what a tool returns or raises after its last request)
Finish(op, arg, limit, data) ==
  CASE op = "search_wikipedia" -> search_wikipedia(arg, limit, data[1])
    [] op = "get_wikipedia_article" ->
         IF Len(data) = 1 THEN article_fallback(arg)
         ELSE get_wikipedia_article(arg, data[1], data[2])
    [] op = "get_wikipedia_summary" -> get_wikipedia_summary(arg, data[1])
    [] op = "get_wikipedia_sections" -> get_wikipedia_sections(arg, data[1])
    [] op = "get_wikipedia_links" -> get_wikipedia_links(arg, limit, data[1])
    [] OTHER -> get_related_topics(arg, limit, data[1])

\* src/server.py:234-236 (mcp.run: the server starts with no tool running)
Init ==
  /\ calls = [c \in Calls |-> Idle]
  /\ sessions = {}

\* src/server.py:60-232 (a tool is invoked: it runs to its first await)
Invoke(c, op, arg, limit) ==
  /\ calls[c].pc = "idle"
  /\ calls' = [calls EXCEPT ![c] =
       [pc |-> "awaiting", op |-> op, arg |-> arg, limit |-> limit,
        reqs |-> <<FirstRequest(op, arg, limit)>>, resps |-> <<>>, data |-> <<>>,
        client |-> AsyncClient(c, 1), result |-> NoResult]]
  /\ sessions' = sessions \cup {AsyncClient(c, 1)}

\* src/server.py:23-28 (client.get completes or raises; the value to return is set)
GetCompletes(c, resp) ==
  /\ calls[c].pc = "awaiting"
  /\ calls' = [calls EXCEPT ![c].pc = "closing",
                            ![c].resps = Append(@, resp),
                            ![c].data = Append(@, make_wikipedia_request(resp))]
  /\ UNCHANGED sessions

\* src/server.py:22-28 (the async with block exits; the tool runs to its next await or its end)
Exit(c) ==
  LET me == calls[c]
      more == NextRequests(me.op, me.arg, me.data)
      next == AsyncClient(c, Len(me.reqs) + 1)
  IN  /\ me.pc = "closing"
      /\ IF Len(more) > 0
           THEN /\ calls' = [calls EXCEPT ![c].pc = "awaiting",
                                          ![c].reqs = me.reqs \o more,
                                          ![c].client = next]
                /\ sessions' = (sessions \ {me.client}) \cup {next}
           ELSE /\ calls' = [calls EXCEPT ![c].pc = "done",
                                          ![c].client = NoClient,
                                          ![c].result =
                                            Finish(me.op, me.arg, me.limit, me.data)]
                /\ sessions' = sessions \ {me.client}

\* src/server.py:89-89 (the return value goes to the caller)
Return(c) ==
  /\ calls[c].pc = "done"
  /\ calls' = [calls EXCEPT ![c] = Idle]
  /\ UNCHANGED sessions

\* src/server.py:61-199 (the limit a tool is called with)
LimitsOf(op) ==
  IF HasLimit(op) THEN LimitArgs \cup {DefaultLimit(op), 100} ELSE {0}

\* src/server.py:24-24 (the outcomes of the pending client.get)
Pending(c) ==
  Responses(Endpoint(calls[c].op, Len(calls[c].reqs)))

\* src/server.py:234-236 (mcp.run: one tool at a time)
Next ==
  \/ \E op \in Ops, arg \in TextArgs :
       \E limit \in LimitsOf(op) : Invoke(1, op, arg, limit)
  \/ \E i \in 1..Len(Pending(1)) : GetCompletes(1, Pending(1)[i])
  \/ Exit(1)
  \/ Return(1)

\* src/server.py:234-236 (mcp.run: one tool at a time)
Spec == Init /\ [][Next]_vars

\* src/server.py:26-26 (response.json: a body of the expected shape)
GoodBody(endpoint) ==
  CASE endpoint = "search" -> 5
    [] endpoint = "summary" -> 1
    [] endpoint = "sections" -> Len(SectionsPayloads)
    [] endpoint = "links" -> 6
    [] OTHER -> Len(CategoriesPayloads)

\* src/server.py:24-26 (the outcomes of the pending client.get)
ConcResponses(c) ==
  LET endpoint == Endpoint(calls[c].op, Len(calls[c].reqs))
  IN  {1, Len(Failures) + GoodBody(endpoint)}

\* src/server.py:234-236 (mcp.run: concurrent tools)
NextConc ==
  \E c \in Calls :
    \/ \E op \in Ops : Invoke(c, op, <<"C","a","t"," ","f","o","o","d">>, DefaultLimit(op))  \* "Cat food"
    \/ \E i \in ConcResponses(c) : GetCompletes(c, Pending(c)[i])
    \/ Exit(c)
    \/ Return(c)

\* src/server.py:234-236 (mcp.run: concurrent tools)
SpecConc == Init /\ [][NextConc]_vars

(***************************************************************************)
(* Properties.                                                             *)
(***************************************************************************)
\* whether invocation c has returned or raised
Done(c) == calls[c].pc = "done"

\* whether a response is a failed request: a timeout, a transport error,
\* a 4xx/5xx status or a body that does not decode
RequestFails(resp) ==
  \/ resp.kind \in {"timeout", "connect"}
  \/ resp.kind = "http" /\ (resp.status >= 400 \/ ~resp.decodable)

\* whether p is a prefix of s
IsPrefix(p, s) == Len(p) <= Len(s) /\ SubSeq(s, 1, Len(p)) = p

\* the positions of the line breaks of s
Breaks(s) == {i \in 1..Len(s) : s[i] = "\n"}

RECURSIVE SplitLines(_)
\* the lines of s
SplitLines(s) ==
  IF Breaks(s) = {} THEN <<s>>
  ELSE LET b == CHOOSE i \in Breaks(s) : \A j \in Breaks(s) : i <= j
       IN  <<SubSeq(s, 1, b - 1)>> \o SplitLines(SubSeq(s, b + 1, Len(s)))

\* the designated fallback of each tool
Fallback(op, title) ==
  CASE op = "search_wikipedia" -> <<"U","n","a","b","l","e"," ","t","o"," ","s","e","a","r","c","h"," ","W","i","k","i","p","e","d","i","a"," ","o","r"," ","n","o"," ","r","e","s","u","l","t","s"," ","f","o","u","n","d",".">>  \* "Unable to search Wikipedia or no results found."
    [] op = "get_wikipedia_article" ->
         <<"U","n","a","b","l","e"," ","t","o"," ","f","e","t","c","h"," ","W","i","k","i","p","e","d","i","a"," ","a","r","t","i","c","l","e"," ","'">> \o title \o <<"'","."," ","A","r","t","i","c","l","e"," ","m","a","y"," ","n","o","t"," ","e","x","i","s","t",".">>  \* "Unable to fetch Wikipedia article '" "'. Article may not exist."
    [] op = "get_wikipedia_summary" ->
         <<"U","n","a","b","l","e"," ","t","o"," ","f","e","t","c","h"," ","s","u","m","m","a","r","y"," ","f","o","r"," ","W","i","k","i","p","e","d","i","a"," ","a","r","t","i","c","l","e"," ","'">> \o title \o <<"'",".">>  \* "Unable to fetch summary for Wikipedia article '" "'."
    [] op = "get_wikipedia_sections" ->
         <<"U","n","a","b","l","e"," ","t","o"," ","f","e","t","c","h"," ","s","e","c","t","i","o","n","s"," ","f","o","r"," ","W","i","k","i","p","e","d","i","a"," ","a","r","t","i","c","l","e"," ","'">> \o title \o <<"'",".">>  \* "Unable to fetch sections for Wikipedia article '" "'."
    [] op = "get_wikipedia_links" ->
         <<"U","n","a","b","l","e"," ","t","o"," ","f","e","t","c","h"," ","l","i","n","k","s"," ","f","o","r"," ","W","i","k","i","p","e","d","i","a"," ","a","r","t","i","c","l","e"," ","'">> \o title \o <<"'",".">>  \* "Unable to fetch links for Wikipedia article '" "'."
    [] OTHER ->
         <<"U","n","a","b","l","e"," ","t","o"," ","f","e","t","c","h"," ","r","e","l","a","t","e","d"," ","t","o","p","i","c","s"," ","f","o","r"," ","W","i","k","i","p","e","d","i","a"," ","a","r","t","i","c","l","e"," ","'">> \o title \o <<"'",".">>  \* "Unable to fetch related topics for Wikipedia article '" "'."

\* whether x is a json object with the given member
HasMember(x, key) == x.t = "dict" /\ HasKey(x.v, key)

\* C1: for each of the six tools and every argument, when the request the
\* tool depends on fails (timeout, transport error, 4xx/5xx, undecodable
\* body), make_wikipedia_request yields None and the tool returns its
\* designated "Unable to ..." fallback; nothing is raised.  Every failed
\* request, the sections request of get_wikipedia_article included, yields
\* None.
C1_FailureYieldsFallback ==
  \A c \in Calls :
    /\ \A k \in 1..Len(calls[c].data) :
         RequestFails(calls[c].resps[k]) => calls[c].data[k].t = "none"
    /\ Done(c) /\ RequestFails(calls[c].resps[1]) =>
         /\ calls[c].result.k = "ok"
         /\ calls[c].result.v = Fallback(calls[c].op, calls[c].arg)

\* C1 witness: get_wikipedia_links has returned its fallback after a 404
C1_Witness ==
  \E c \in Calls :
    /\ Done(c)
    /\ calls[c].op = "get_wikipedia_links"
    /\ calls[c].resps[1].kind = "http"
    /\ calls[c].resps[1].status = 404
    /\ calls[c].result = Ok(Fallback("get_wikipedia_links", calls[c].arg))

\* C2: no tool ever raises: for every decoded payload, of any shape, each of
\* the six tools ends by returning a string.
C2_NoOperationRaises ==
  \A c \in Calls : Done(c) => calls[c].result.k = "ok"

\* C3: for every integer limit, search_wikipedia sends srlimit = min(limit, 20)
\* and get_wikipedia_links sends pllimit = min(limit, 50): never above the
\* cap, and a limit below 1 is forwarded unchanged.
C3_LimitCapped ==
  \A c \in Calls :
    LET me == calls[c] IN
    /\ me.op = "search_wikipedia" =>
         LET sent == me.reqs[1].params.srlimit
         IN  /\ sent <= 20
             /\ me.limit <= 20 => sent = me.limit
             /\ me.limit > 20 => sent = 20
             /\ me.limit < 1 => sent = me.limit
    /\ me.op = "get_wikipedia_links" =>
         LET sent == me.reqs[1].params.pllimit
         IN  /\ sent <= 50
             /\ me.limit <= 50 => sent = me.limit
             /\ me.limit > 50 => sent = 50
             /\ me.limit < 1 => sent = me.limit

\* C3 witness: a search with limit=100 has sent srlimit=20
C3_Witness ==
  \E c \in Calls :
    /\ calls[c].op = "search_wikipedia"
    /\ calls[c].limit = 100
    /\ calls[c].reqs[1].params.srlimit = 20

\* C4: in get_wikipedia_article the summary payload is the sole gate: the
\* fallback is returned if and only if the summary fetch is Absent, whatever
\* the sections fetch returns; whenever a summary payload is present the
\* result starts with the formatted summary.
C4_SummarySoleGate ==
  \A c \in Calls :
    Done(c) /\ calls[c].op = "get_wikipedia_article" =>
      LET me == calls[c]
          absent == me.data[1].t = "none"
          summary == format_article_summary(me.data[1])
      IN  /\ absent <=> me.result = Ok(Fallback(me.op, me.arg))
          /\ ~absent =>
               /\ me.result.k = "ok"
               /\ summary.k = "ok"
               /\ IsPrefix(summary.v, me.result.v)

\* the value of query.search in a search payload, when it has one
SearchHits(d) == Lookup(Lookup(d.v, K_query).v, K_search)

\* whether a search payload has query.search
HasSearch(d) ==
  /\ HasMember(d, K_query)
  /\ HasMember(Lookup(d.v, K_query), K_search)

\* the formatted hits, when each of them formats
Formatted(hits) == [i \in 1..Len(hits) |-> format_search_result(hits[i])]

\* C5: for every search payload search_wikipedia returns exactly one of
\* three outcomes: the request-failed message when the payload is Absent or
\* lacks query.search; the "No Wikipedia articles found for query" message
\* when query.search is an empty list; otherwise "Found N Wikipedia
\* articles:" with N the number of hits, then the N formatted hits in
\* payload order joined by "\n---\n".
C5_SearchOutcomes ==
  \A c \in Calls :
    Done(c) /\ calls[c].op = "search_wikipedia" =>
      LET me == calls[c]
          d == me.data[1]
      IN  IF d.t = "none" \/ ~HasSearch(d)
            THEN me.result = Ok(Fallback(me.op, me.arg))
          ELSE IF SearchHits(d).t = "list" /\ Len(SearchHits(d).v) = 0
            THEN me.result = Ok(<<"N","o"," ","W","i","k","i","p","e","d","i","a"," ","a","r","t","i","c","l","e","s"," ","f","o","u","n","d"," ","f","o","r"," ","q","u","e","r","y",":"," ","'">>  \* "No Wikipedia articles found for query: '"
                                \o me.arg \o <<"'">>)  \* "'"
          ELSE /\ me.result.k = "ok"
               /\ SearchHits(d).t = "list"
               /\ \A i \in 1..Len(SearchHits(d).v) :
                    Formatted(SearchHits(d).v)[i].k = "ok"
               /\ me.result.v =
                    <<"F","o","u","n","d"," ">> \o IntToStr(Len(SearchHits(d).v))  \* "Found "
                    \o <<" ","W","i","k","i","p","e","d","i","a"," ","a","r","t","i","c","l","e","s",":","\n","\n">>  \* " Wikipedia articles:\n\n"
                    \o Join(<<"\n","-","-","-","\n">>,  \* "\n---\n"
                            [i \in 1..Len(SearchHits(d).v) |->
                               Formatted(SearchHits(d).v)[i].v])

\* whether a categories payload holds one page with a list of categories,
\* each with a string title
HasCategories(d) ==
  /\ HasMember(d, K_query)
  /\ HasMember(Lookup(d.v, K_query), K_pages)
  /\ LET pages == Lookup(Lookup(d.v, K_query).v, K_pages)
     IN  /\ pages.t = "dict"
         /\ Len(pages.v) = 1
         /\ HasMember(pages.v[1][2], K_categories)
         /\ LET cats == Lookup(pages.v[1][2].v, K_categories)
            IN  /\ cats.t = "list"
                /\ \A i \in 1..Len(cats.v) :
                     /\ HasMember(cats.v[i], K_title)
                     /\ Lookup(cats.v[i].v, K_title).t = "str"

\* the category names of such a payload, without the prefix
CategoryNames(d) ==
  LET pages == Lookup(Lookup(d.v, K_query).v, K_pages)
      cats == Lookup(pages.v[1][2].v, K_categories).v
  IN  [i \in 1..Len(cats) |->
         Replace(Lookup(cats[i].v, K_title).v, CategoryPrefix, <<>>)]

\* C6: get_related_topics always requests cllimit=20, whatever the limit,
\* and for every integer limit and every returned category list the output
\* lists at most `limit` topics: exactly the first min(limit, number of
\* categories) categories, in source order.
C6_RelatedTruncation ==
  \A c \in Calls :
    calls[c].op = "get_related_topics" =>
      LET me == calls[c] IN
      /\ me.reqs[1].params.cllimit = 20
      /\ Done(c) /\ HasCategories(me.data[1]) =>
           LET names == CategoryNames(me.data[1])
               listed == SubSeq(names, 1, Min(me.limit, Len(names)))
           IN  /\ me.result.k = "ok"
               /\ me.result.v =
                    <<"T","o","p","i","c","s"," ","r","e","l","a","t","e","d"," ","t","o"," ","'">> \o me.arg \o <<"'",":","\n">>  \* "Topics related to '" "':\n"
                    \o Join(<<"\n">>, [i \in 1..Len(listed) |-> <<"-"," ">> \o listed[i]])  \* "\n" "- "

\* whether x is absent or a list of sections, each a json object
IsSectionList(x) ==
  \/ x.t = "none"
  \/ /\ x.t = "list"
     /\ \A i \in 1..Len(x.v) : x.v[i].t = "dict"

\* the heading of a section, as text
Heading(section) ==
  IF HasKey(section.v, K_line) THEN Str(Lookup(section.v, K_line))
  ELSE <<"U","n","k","n","o","w","n"," ","S","e","c","t","i","o","n">>  \* "Unknown Section"

C8_SectionsBlock ==
  \A c \in Calls :
    (/\ Done(c)
     /\ calls[c].op = "get_wikipedia_article"
     /\ calls[c].data[1].t # "none") =>
      LET me == calls[c]
          summary == format_article_summary(me.data[1])
          nonEmpty ==
            /\ Len(me.data) = 2
            /\ HasMember(me.data[2], K_sections)
            /\ Lookup(me.data[2].v, K_sections).t = "list"
            /\ Len(Lookup(me.data[2].v, K_sections).v) > 0
          block == format_article_sections(Lookup(me.data[2].v, K_sections))
      IN  /\ summary.k = "ok"
          /\ me.result.k = "ok"
          /\ IF nonEmpty
               THEN /\ block.k = "ok"
                    /\ me.result.v = summary.v \o <<"\n","\n","S","e","c","t","i","o","n","s",":","\n">> \o block.v  \* "\n\nSections:\n"
               ELSE me.result.v = summary.v

\* C9 as stated: every invocation of get_wikipedia_article issues exactly two
\* requests, the summary request and then the sections request for the same
\* title, whatever the first returned; every other tool issues exactly one.
C9_ExactlyTwoRequests ==
  \A c \in Calls :
    Done(c) =>
      IF calls[c].op = "get_wikipedia_article"
        THEN calls[c].reqs = <<summary_request(calls[c].arg),
                               sections_request(calls[c].arg)>>
        ELSE Len(calls[c].reqs) = 1

\* C9 as amended: the requests of an invocation are issued one after the
\* other, each after the response to the one before, and none is issued
\* again.  get_wikipedia_article issues the summary request and then, only
\* when the summary payload is present and non-empty (truthy), the sections
\* request for the same title, whose URL depends on the title alone: two
\* requests then, one otherwise.  Every other tool issues exactly one.
C9_SequentialRequests ==
  \A c \in Calls :
    LET me == calls[c] IN
    /\ Len(me.reqs) <= 2
    /\ Len(me.reqs) - Len(me.resps) = (IF me.pc = "awaiting" THEN 1 ELSE 0)
    /\ \A i, j \in 1..Len(me.reqs) : i # j => me.reqs[i] # me.reqs[j]
    /\ Done(c) /\ me.op # "get_wikipedia_article" => Len(me.reqs) = 1
    /\ Done(c) /\ me.op = "get_wikipedia_article" =>
         /\ me.reqs[1] = summary_request(me.arg)
         /\ Len(me.reqs) = (IF Truthy(me.data[1]) THEN 2 ELSE 1)
         /\ Len(me.reqs) = 2 =>
              /\ me.reqs[2].url = WIKIPEDIA_API_BASE \o <<"/","p","a","g","e","/","s","e","c","t","i","o","n","s","/">>  \* "/page/sections/"
                                  \o Replace(me.arg, <<" ">>, <<"_">>)  \* " " "_"
              /\ me.reqs[2].params.t = "none"

\* C9 witness: get_wikipedia_article has ended after two requests, the second
\* of which failed and was not issued again
C9_Witness ==
  \E c \in Calls :
    /\ Done(c)
    /\ calls[c].op = "get_wikipedia_article"
    /\ Len(calls[c].reqs) = 2
    /\ RequestFails(calls[c].resps[2])
    /\ calls[c].result.k = "ok"

\* the sessions are those of the requests in flight, one per request
SessionsScoped ==
  /\ \A s \in sessions :
       /\ s.owner \in Calls
       /\ calls[s.owner].pc \in {"awaiting", "closing"}
       /\ calls[s.owner].client = s
  /\ \A c \in Calls :
       IF calls[c].pc \in {"awaiting", "closing"}
         THEN /\ calls[c].client \in sessions
              /\ calls[c].client.owner = c
              /\ calls[c].client.req = Len(calls[c].reqs)
         ELSE \A s \in sessions : s.owner # c
  /\ \A c1, c2 \in Calls :
       c1 # c2 /\ calls[c1].client = calls[c2].client => calls[c1].pc \in {"idle", "done"}

\* a step changes the state of one invocation only
Isolated ==
  \A c1, c2 \in Calls : calls'[c1] # calls[c1] /\ calls'[c2] # calls[c2] => c1 = c2

\* the value make_wikipedia_request returns for each response an invocation got
OwnData(c) ==
  [k \in 1..Len(calls[c].resps) |->
     IF RequestFails(calls[c].resps[k]) THEN PyNone ELSE calls[c].resps[k].json]

\* what an invocation returns is the outcome of its own arguments and responses
OwnResult ==
  \A c \in Calls :
    /\ calls[c].data = OwnData(c)
    /\ Done(c) =>
         calls[c].result = Finish(calls[c].op, calls[c].arg, calls[c].limit, OwnData(c))

\* C10: concurrent invocations share no mutable state: under every
\* interleaving each request runs in a session opened by that request alone
\* and closed before the request returns, on success and on failure; no
\* session is shared or left open; a step of one invocation changes no other
\* invocation, and what an invocation returns is determined by its own
\* arguments and the responses to its own requests.
C10_NoSharedState == [](SessionsScoped /\ OwnResult) /\ [][Isolated]_vars

\* C10 witness: two invocations are in flight at once, each in its own
\* session, and one of them has got a failure
C10_Witness ==
  \E c1, c2 \in Calls :
    /\ c1 # c2
    /\ calls[c1].pc = "closing"
    /\ calls[c2].pc = "awaiting"
    /\ RequestFails(calls[c1].resps[1])
    /\ {calls[c1].client, calls[c2].client} \subseteq sessions
    /\ Cardinality(sessions) = 2

====
